---------------------------- MODULE Spec2Model ----------------------------
(***************************************************************************)
(* Model of prometheus-sd (src/src/main.rs): a Redis-backed service        *)
(* registry with register / unregister clients and a discover process     *)
(* that rewrites an output file on every keyspace notification.            *)
(*                                                                         *)
(* Strings are sequences of one-character strings, so that formatting,     *)
(* prefix matching and lexicographic sorting are computed as the code      *)
(* computes them.                                                          *)
(***************************************************************************)
EXTENDS Integers, Sequences, FiniteSets, TLC

(***************************************************************************)
(* Bounds of the model.                                                    *)
(***************************************************************************)
\* Number of client invocations (register / unregister) in one behaviour.
MaxOps == 4
\* Number of client processes that can be inside a call at the same time.
NumClients == 2
\* Largest --max-timeout, in seconds.
MaxTimeoutSec == 2
\* Longest time one connection attempt takes, in ticks.
MaxAttemptTicks == 1

(***************************************************************************)
(* Strings.                                                                *)
(***************************************************************************)
\* Byte values of the characters used (String ordering in Rust is bytewise).
Code ==
  [c \in {"/", "0", "1", "8", ":", "b", "d", "e", "g", "h", "j", "m", "n", "o", "v", "w", "x", "y"} |->
     CASE c = "/" -> 47 [] c = "0" -> 48 [] c = "1" -> 49 [] c = "8" -> 56
       [] c = ":" -> 58 [] c = "b" -> 98 [] c = "d" -> 100 [] c = "e" -> 101
       [] c = "g" -> 103 [] c = "h" -> 104 [] c = "j" -> 106 [] c = "m" -> 109
       [] c = "n" -> 110 [] c = "o" -> 111 [] c = "v" -> 118 [] c = "w" -> 119
       [] c = "x" -> 120 [] c = "y" -> 121]

\* str::starts_with
StartsWith(s, p) ==
  /\ Len(p) <= Len(s)
  /\ \A i \in 1..Len(p) : s[i] = p[i]

\* Ord for String: lexicographic on bytes, a proper prefix sorts first.
RECURSIVE StrLess(_, _)
StrLess(a, b) ==
  IF a = <<>> THEN b # <<>>
  ELSE IF b = <<>> THEN FALSE
  ELSE IF Code[Head(a)] # Code[Head(b)] THEN Code[Head(a)] < Code[Head(b)]
  ELSE StrLess(Tail(a), Tail(b))

DigitChar == <<"0", "1", "2", "3", "4", "5", "6", "7", "8", "9">>

\* Display of a u16: its decimal digits, no padding.
RECURSIVE FmtU16(_)
FmtU16(n) ==
  IF n < 10 THEN <<DigitChar[n + 1]>>
  ELSE FmtU16(n \div 10) \o <<DigitChar[(n % 10) + 1]>>

(***************************************************************************)
(* Inputs of the command line, drawn from small sets.                      *)
(***************************************************************************)
Keys == {<<"w">>, <<"d", "b">>}
Hosts == {<<"h", "1">>, <<"h", "1", "0">>}
Ports == {80}
Paths == {<<"/", "m">>}
JOB == <<"j", "o", "b">>
ENV == <<"e", "n", "v">>
JobNames == {<<"x">>}
\* Option<T>: a sequence of length 0 (None) or 1 (Some).
None == <<>>
Some(x) == <<x>>
\* -l KEY VALUE pairs as clap hands them over, in order.
LabelLists ==
  { <<>>,
    << <<JOB, <<"y">>>> >>,
    << <<ENV, <<"x">>>>, <<ENV, <<"y">>>> >> }
\* --host of unregister: absent, or a prefix text.
HostArgs ==
  { None, Some(<<"h", "1">>), Some(<<"h", "1", "0">>),
    Some(<<"h", "1", ":">>), Some(<<"x">>) }
\* --job-name of register: absent, or a name.
JobArgs == {None} \cup {Some(j) : j \in JobNames}

(***************************************************************************)
(* The Redis keyspace and the commands the program sends.                  *)
(***************************************************************************)
\* static SERVICE_KEY, and the two per-service keys built with format!.
\* A key is kept as its parts; the three shapes never collide.
SERVICE_KEY == <<"prometheus_sd_service_keys">>
LabelsKey(service_name) == <<"prometheus_sd", service_name, "labels">>
TargetsKey(service_name) == <<"prometheus_sd", service_name, "targets">>

IsServiceKey(key) == Len(key) = 1
IsLabelsKey(key) == Len(key) = 3 /\ key[3] = "labels"
IsTargetsKey(key) == Len(key) = 3 /\ key[3] = "targets"

\* format!("{}:{}{}", inst.host, inst.port, inst.metrics_path)
TargetString(host, port, metrics_path) ==
  host \o <<":">> \o FmtU16(port) \o metrics_path

AllTargets == {TargetString(h, p, m) : h \in Hosts, p \in Ports, m \in Paths}

\* A hash is a function from its fields; a key with no field does not exist.
EmptyHash == [f \in {} |-> <<>>]
HPut(h, f, v) == [x \in (DOMAIN h) \cup {f} |-> IF x = f THEN v ELSE h[x]]

\* HSET key f1 v1 f2 v2 ...: the fields are written in order.
RECURSIVE HPutAll(_, _)
HPutAll(h, items) ==
  IF items = <<>> THEN h
  ELSE HPutAll(HPut(h, Head(items)[1], Head(items)[2]), Tail(items))

\* The registry in an empty Redis.
EmptyDb ==
  [ svc |-> {},
    lab |-> [k \in Keys |-> EmptyHash],
    tgt |-> [k \in Keys |-> {}] ]

Sadd(key, member) == [cmd |-> "SADD", key |-> key, arg |-> member]
Srem(key, member) == [cmd |-> "SREM", key |-> key, arg |-> member]
Hset(key, items) == [cmd |-> "HSET", key |-> key, arg |-> items]
Del(key) == [cmd |-> "DEL", key |-> key, arg |-> <<>>]

\* The value of a set key.
SetAt(d, key) == IF IsServiceKey(key) THEN d.svc ELSE d.tgt[key[2]]

WithSet(d, key, v) ==
  IF IsServiceKey(key) THEN [d EXCEPT !.svc = v]
  ELSE [d EXCEPT !.tgt[key[2]] = v]

\* One command executed by Redis.
Exec(d, c) ==
  CASE c.cmd = "SADD" -> WithSet(d, c.key, SetAt(d, c.key) \cup {c.arg})
    [] c.cmd = "SREM" -> WithSet(d, c.key, SetAt(d, c.key) \ {c.arg})
    [] c.cmd = "HSET" -> [d EXCEPT !.lab[c.key[2]] = HPutAll(@, c.arg)]
    [] c.cmd = "DEL" ->
         IF IsLabelsKey(c.key) THEN [d EXCEPT !.lab[c.key[2]] = EmptyHash]
         ELSE WithSet(d, c.key, {})

\* The keyspace event class of a command that changed its key: "s" for set
\* commands, "h" for hash commands, "g" for generic commands such as DEL.
\* SADD / SREM raise an event only if a member was added / removed.
EventClass(d, c) ==
  CASE c.cmd = "SADD" -> IF c.arg \in SetAt(d, c.key) THEN {} ELSE {"s"}
    [] c.cmd = "SREM" -> IF c.arg \in SetAt(d, c.key) THEN {"s"} ELSE {}
    [] c.cmd = "HSET" -> {"h"}
    [] c.cmd = "DEL" -> {"g"}

\* MULTI ... EXEC: the commands of an atomic pipeline run with no other
\* client's command between them.  events counts the keyspace messages sent
\* to a subscriber when the classes in flags are enabled.
RECURSIVE ApplyPipe(_, _, _)
ApplyPipe(d, cmds, flags) ==
  IF cmds = <<>> THEN [db |-> d, events |-> 0]
  ELSE LET rest == ApplyPipe(Exec(d, Head(cmds)), Tail(cmds), flags)
       IN [db |-> rest.db,
           events |-> rest.events
                      + (IF EventClass(d, Head(cmds)) \cap flags # {} THEN 1 ELSE 0)]

(***************************************************************************)
(* discover_services.                                                      *)
(***************************************************************************)
\* The replies SMEMBERS can give for a set: its members in any order.
Orders(S) ==
  {o \in [1..Cardinality(S) -> S] : \A i, j \in 1..Cardinality(S) : i # j => o[i] # o[j]}

\* Insert one key into a sorted sequence.
RECURSIVE Insert(_, _)
Insert(k, sorted) ==
  IF sorted = <<>> THEN <<k>>
  ELSE IF StrLess(k, Head(sorted)) THEN <<k>> \o sorted
  ELSE <<Head(sorted)>> \o Insert(k, Tail(sorted))

\* Mutant: the keys are left in the order of the reply.
SortKeys_Unsorted(ks) == ks

\* service_keys.sort()
RECURSIVE SortKeys(_)
SortKeys(ks) ==
  IF ks = <<>> THEN <<>> ELSE Insert(Head(ks), SortKeys(Tail(ks)))

\* HGETALL of a service's labels key and SMEMBERS of its targets key.
HGetAllLabels(d, key) == d.lab[key]
SMembersTargets(d, key) == d.tgt[key]

RegisteredService(labels, targets) == [labels |-> labels, targets |-> targets]

\* discover_services run against a registry that does not change meanwhile,
\* with the Service Set members replied in the given order.
DiscoverRun(d, order) ==
  LET sorted == SortKeys(order)
  IN [i \in 1..Len(sorted) |->
        RegisteredService(HGetAllLabels(d, sorted[i]),
                          SMembersTargets(d, sorted[i]))]

(***************************************************************************)
(* State.                                                                  *)
(***************************************************************************)
VARIABLES
  db,        \* the registry keys in Redis: Service Set, Labels Maps, Targets Sets
  pc,        \* per client process: where it is in its call
  call,      \* per client process: the call it is executing
  pipe,      \* per client process: the pipeline unregister_instance has built
  nops,      \* number of client invocations started so far
  last,      \* history: the latest completed call and its result
  repeat,    \* history: the latest call started repeats the successful call before it
  scen,      \* history: how many steps of the register/unregister scenario have run
  recording, \* history: whether last, repeat and scen are kept in this behaviour
  flags,     \* Redis: the event classes of notify-keyspace-events
  subscribed,\* Redis: the discover process has its pattern subscription
  pending,   \* Redis: keyspace messages sent to the subscription, not yet read
  mpc,       \* discover process: where it is in run_app / monitor_registry
  service_keys, \* discover_services: the sorted keys
  cur_labels,\* discover_services: the labels read for the service in hand
  services,  \* discover_services: the Registered Services collected
  file,      \* the output file
  consumed,  \* history: messages get_message has returned
  discovers, \* history: discover_services calls completed in the loop
  writes,    \* history: overwrites of the file completed in the loop
  tracing,   \* history: whether err, lastgood and seen are kept in this behaviour
  err,       \* history: the step of the discover process that failed, if one did
  lastgood,  \* history: the file as the last write that succeeded left it
  seen,      \* history: the registry states since the discover call in hand began
  conn       \* try_redis_connect of the process that is starting

clientVars == <<pc, call, pipe, nops>>
histVars == <<last, repeat, scen, recording>>
redisVars == <<flags, subscribed, pending>>
monVars == <<mpc, service_keys, cur_labels, services, file, consumed, discovers, writes>>
traceVars == <<tracing, err, lastgood, seen>>
vars == <<db, clientVars, histVars, redisVars, monVars, traceVars, conn>>

Clients == 1..NumClients
NoCall == [op |-> "none"]

(***************************************************************************)
(* register_instance and unregister_instance.                              *)
(***************************************************************************)
\* run_app, "register": the ServiceInstance built from the arguments.
MakeInstance(service_key, job, labels, host, port, metrics_path) ==
  [ service_name |-> service_key,
    job_name |-> IF job = None THEN service_key ELSE job[1],
    labels |-> labels,
    metrics_path |-> metrics_path,
    host |-> host,
    port |-> port ]

Instances ==
  { MakeInstance(k, j, l, h, p, m) :
      k \in Keys, j \in JobArgs, l \in LabelLists, h \in Hosts, p \in Ports, m \in Paths }

\* Mutant: the job label is never written.
RegisterPipe_NoJob(inst) ==
  << Sadd(SERVICE_KEY, inst.service_name) >>
  \o (IF inst.labels # <<>>
        THEN << Hset(LabelsKey(inst.service_name), inst.labels) >>
        ELSE <<>>)
  \o << Sadd(TargetsKey(inst.service_name),
              TargetString(inst.host, inst.port, inst.metrics_path)) >>

\* Mutant: the new target replaces the targets registered before.
RegisterPipe_Replace(inst) ==
  << Sadd(SERVICE_KEY, inst.service_name),
     Hset(LabelsKey(inst.service_name), << <<JOB, inst.job_name>> >>) >>
  \o (IF inst.labels # <<>>
        THEN << Hset(LabelsKey(inst.service_name), inst.labels) >>
        ELSE <<>>)
  \o << Del(TargetsKey(inst.service_name)),
         Sadd(TargetsKey(inst.service_name),
              TargetString(inst.host, inst.port, inst.metrics_path)) >>

\* The atomic pipeline of register_instance.
RegisterPipe(inst) ==
  << Sadd(SERVICE_KEY, inst.service_name),
     Hset(LabelsKey(inst.service_name), << <<JOB, inst.job_name>> >>) >>
  \o (IF inst.labels # <<>>
        THEN << Hset(LabelsKey(inst.service_name), inst.labels) >>
        ELSE <<>>)
  \o << Sadd(TargetsKey(inst.service_name),
              TargetString(inst.host, inst.port, inst.metrics_path)) >>

\* Mutant: find() stops at the first target, whatever the host given.
Matching_Any(service_targets, host) == service_targets

\* The targets the find() of unregister_instance can stop at: the set is a
\* HashSet, whose iteration order is not fixed, so any matching one.
Matching(service_targets, host) ==
  {t \in service_targets : StartsWith(t, host)}

\* Mutant: the last target goes, the labels stay.
UnregisterPipe_KeepLabels(service_name, host, service_targets, found) ==
  IF host # None
  THEN << Srem(TargetsKey(service_name), found) >>
       \o (IF Cardinality(service_targets) = 1
             THEN << Del(TargetsKey(service_name)),
                     Srem(SERVICE_KEY, service_name) >>
             ELSE <<>>)
  ELSE << Del(TargetsKey(service_name)),
          Del(LabelsKey(service_name)),
          Srem(SERVICE_KEY, service_name) >>

\* Mutant: the last target goes, the service is not removed.
UnregisterPipe_NoCascade(service_name, host, service_targets, found) ==
  IF host # None
  THEN << Srem(TargetsKey(service_name), found) >>
  ELSE << Del(TargetsKey(service_name)),
          Del(LabelsKey(service_name)),
          Srem(SERVICE_KEY, service_name) >>

\* Mutant: unregistering one host removes the service whatever targets remain.
UnregisterPipe_AlwaysCascade(service_name, host, service_targets, found) ==
  << Del(TargetsKey(service_name)),
     Del(LabelsKey(service_name)),
     Srem(SERVICE_KEY, service_name) >>

\* Mutant: unregistering without host only leaves the Service Set.
UnregisterPipe_MembershipOnly(service_name, host, service_targets, found) ==
  IF host # None
  THEN << Srem(TargetsKey(service_name), found) >>
       \o (IF Cardinality(service_targets) = 1
             THEN << Del(TargetsKey(service_name)),
                     Del(LabelsKey(service_name)),
                     Srem(SERVICE_KEY, service_name) >>
             ELSE <<>>)
  ELSE << Srem(SERVICE_KEY, service_name) >>

\* The atomic pipeline of unregister_instance, given the targets it read and,
\* with a host, the target found.
UnregisterPipe(service_name, host, service_targets, found) ==
  IF host # None
  THEN << Srem(TargetsKey(service_name), found) >>
       \o (IF Cardinality(service_targets) = 1
             THEN << Del(TargetsKey(service_name)),
                     Del(LabelsKey(service_name)),
                     Srem(SERVICE_KEY, service_name) >>
             ELSE <<>>)
  ELSE << Del(TargetsKey(service_name)),
          Del(LabelsKey(service_name)),
          Srem(SERVICE_KEY, service_name) >>

\* A client process starts a call.
Start(c, newcall) ==
  /\ pc[c] = "idle"
  /\ nops < MaxOps
  /\ nops' = nops + 1
  /\ repeat' = (recording /\ last.result = "Ok" /\ last.call = newcall)

\* The scenario: two hosts registered for one service, one of them
\* unregistered by host, then the service unregistered without host.
Scenario ==
  << [op |-> "register",
      inst |-> MakeInstance(<<"w">>, None, <<>>, <<"h", "1", "0">>, 80, <<"/", "m">>)],
     [op |-> "register",
      inst |-> MakeInstance(<<"w">>, None, <<>>, <<"h", "1">>, 80, <<"/", "m">>)],
     [op |-> "unregister", service_name |-> <<"w">>, host |-> Some(<<"h", "1", "0">>)],
     [op |-> "unregister", service_name |-> <<"w">>, host |-> None] >>

\* A call returns to main with result res and the process ends.
Finish(c, thecall, res) ==
  /\ pc' = [pc EXCEPT ![c] = "idle"]
  /\ call' = [call EXCEPT ![c] = NoCall]
  /\ pipe' = [pipe EXCEPT ![c] = <<>>]
  /\ last' = IF recording THEN [call |-> thecall, result |-> res] ELSE last
  /\ scen' = IF ~recording THEN scen
              ELSE IF scen >= 0 /\ scen < Len(Scenario) /\ res = "Ok"
                      /\ thecall = Scenario[scen + 1]
              THEN scen + 1 ELSE -1
  /\ UNCHANGED recording

\* pipe.query(con) of an atomic pipeline: Redis runs it as one transaction
\* and sends the keyspace messages of its commands to the subscriber.
Query(cmds) ==
  LET r == ApplyPipe(db, cmds, flags)
  IN /\ db' = r.db
     /\ pending' = pending + (IF subscribed THEN r.events ELSE 0)
     /\ seen' = IF tracing /\ mpc \in {"keys", "labels", "targets"}
               THEN seen \cup {r.db} ELSE seen

\* register_instance: the whole call is one pipeline query.
Register(c, inst, ok) ==
  LET thecall == [op |-> "register", inst |-> inst] IN
  /\ Start(c, thecall)
  /\ Query(IF ok THEN RegisterPipe(inst) ELSE <<>>)
  /\ Finish(c, thecall, IF ok THEN "Ok" ELSE "RedisError")
  /\ UNCHANGED <<flags, subscribed, monVars, tracing, err, lastgood, conn>>

\* unregister_instance up to the SISMEMBER reply; an error reply counts as
\* "not registered" (unwrap_or(false)).
UnregisterCheck(c, service_name, host, ok) ==
  LET thecall == [op |-> "unregister", service_name |-> service_name, host |-> host]
      service_is_registered == IF ok THEN service_name \in db.svc ELSE FALSE
  IN
  /\ Start(c, thecall)
  /\ IF ~service_is_registered
     THEN Finish(c, thecall, "NoSuchService")
     ELSE /\ pc' = [pc EXCEPT ![c] = "read"]
          /\ call' = [call EXCEPT ![c] = thecall]
          /\ UNCHANGED <<pipe, last, scen, recording>>
  /\ UNCHANGED <<db, redisVars, monVars, traceVars, conn>>

\* unregister_instance from the SMEMBERS reply to the point where the
\* pipeline is complete: the match on host.
UnregisterRead(c, ok, found) ==
  LET service_targets == db.tgt[call[c].service_name]
      host == call[c].host
  IN
  /\ pc[c] = "read"
  /\ IF ~ok
     THEN Finish(c, call[c], "RedisError")
     ELSE IF host # None /\ Matching(service_targets, host[1]) = {}
     THEN Finish(c, call[c], "NoSuchHost")
     ELSE /\ host # None => found \in Matching(service_targets, host[1])
          /\ host = None => found = CHOOSE t \in AllTargets : TRUE
          /\ pipe' = [pipe EXCEPT ![c] =
                        UnregisterPipe(call[c].service_name, host, service_targets, found)]
          /\ pc' = [pc EXCEPT ![c] = "commit"]
          /\ UNCHANGED <<call, last, scen, recording>>
  /\ UNCHANGED <<db, nops, repeat, redisVars, monVars, traceVars, conn>>

\* unregister_instance: pipe.query(con).
UnregisterCommit(c, ok) ==
  /\ pc[c] = "commit"
  /\ Query(IF ok THEN pipe[c] ELSE <<>>)
  /\ Finish(c, call[c], IF ok THEN "Ok" ELSE "RedisError")
  /\ UNCHANGED <<nops, repeat, flags, subscribed, monVars, tracing, err, lastgood, conn>>

(***************************************************************************)
(* run_app "discover" and monitor_registry.                                *)
(***************************************************************************)
\* The output file: absent, created and still empty, or holding the JSON of
\* a sequence of Registered Services (kept as the value it encodes).
NoFile == [state |-> "absent", content |-> <<>>]
Truncated == [state |-> "empty", content |-> <<>>]
Written(svcs) == [state |-> "written", content |-> svcs]

\* The history of the discover process after one of its steps.
MonHist(failed) ==
  /\ err' = IF tracing /\ failed THEN mpc ELSE err
  /\ lastgood' = IF tracing /\ mpc = "write" /\ file'.state = "written"
                  THEN file' ELSE lastgood
  /\ seen' = IF tracing /\ mpc = "wait" /\ mpc' = "keys" THEN {db} ELSE seen
  /\ UNCHANGED <<tracing, conn>>

\* An error returned with ? up to main, which exits with status 1.
MonFail ==
  /\ mpc' = "failed"
  /\ UNCHANGED <<service_keys, cur_labels, services, file, consumed, discovers, writes>>

\* discover_services: con.smembers(SERVICE_KEY)? and the sort.
MonReadKeys(ok, order) ==
  /\ mpc = "keys"
  /\ order \in Orders(db.svc)
  /\ IF ~ok THEN MonFail
     ELSE /\ service_keys' = SortKeys(order)
          /\ services' = <<>>
          /\ cur_labels' = EmptyHash
          /\ mpc' = IF order = <<>> THEN "create" ELSE "labels"
          /\ discovers' = IF order = <<>> /\ subscribed THEN discovers + 1 ELSE discovers
          /\ UNCHANGED <<file, consumed, writes>>
  /\ UNCHANGED <<db, clientVars, histVars, redisVars>>
  /\ MonHist(~ok)

\* discover_services: con.hgetall(labels key)? of the next service.
MonReadLabels(ok) ==
  /\ mpc = "labels"
  /\ IF ~ok THEN MonFail
     ELSE /\ cur_labels' = HGetAllLabels(db, service_keys[Len(services) + 1])
          /\ mpc' = "targets"
          /\ UNCHANGED <<service_keys, services, file, consumed, discovers, writes>>
  /\ UNCHANGED <<db, clientVars, histVars, redisVars>>
  /\ MonHist(~ok)

\* discover_services: con.smembers(targets key)? of the same service, and
\* the Registered Service collected; after the last one the call returns.
MonReadTargets(ok) ==
  /\ mpc = "targets"
  /\ IF ~ok THEN MonFail
     ELSE LET key == service_keys[Len(services) + 1]
              more == Len(services) + 1 < Len(service_keys)
          IN /\ services' =
                  Append(services, RegisteredService(cur_labels, SMembersTargets(db, key)))
             /\ mpc' = IF more THEN "labels" ELSE "create"
             /\ discovers' = IF ~more /\ subscribed THEN discovers + 1 ELSE discovers
             /\ UNCHANGED <<service_keys, cur_labels, file, consumed, writes>>
  /\ UNCHANGED <<db, clientVars, histVars, redisVars>>
  /\ MonHist(~ok)

\* File::create(out_path)?: the file exists and is empty.
MonCreate(ok) ==
  /\ mpc = "create"
  /\ IF ~ok THEN MonFail
     ELSE /\ file' = Truncated
          /\ mpc' = "write"
          /\ UNCHANGED <<service_keys, cur_labels, services, consumed, discovers, writes>>
  /\ UNCHANGED <<db, clientVars, histVars, redisVars>>
  /\ MonHist(~ok)

\* serde_json::to_writer_pretty.  run_app writes to the File itself and
\* returns a write error.  monitor_registry writes through a BufWriter of
\* 256 KiB that is dropped when the call returns: the JSON reaches the file
\* in the flush of that drop, which discards an error.
MonWrite(ok) ==
  /\ mpc = "write"
  /\ IF ~ok /\ ~subscribed THEN MonFail
     ELSE /\ file' = IF ok THEN Written(services) ELSE file
          /\ mpc' = IF subscribed THEN "wait" ELSE "connect"
          /\ writes' = IF subscribed THEN writes + 1 ELSE writes
          /\ UNCHANGED <<service_keys, cur_labels, services, consumed, discovers>>
  /\ UNCHANGED <<db, clientVars, histVars, redisVars>>
  /\ MonHist(~ok)

\* monitor_registry: client.get_connection()?
MonConnect(ok) ==
  /\ mpc = "connect"
  /\ IF ~ok THEN MonFail
     ELSE /\ mpc' = "config"
          /\ UNCHANGED <<service_keys, cur_labels, services, file, consumed, discovers, writes>>
  /\ UNCHANGED <<db, clientVars, histVars, redisVars>>
  /\ MonHist(~ok)

\* monitor_registry: CONFIG SET notify-keyspace-events Ksh
MonConfig(ok) ==
  /\ mpc = "config"
  /\ IF ~ok THEN MonFail /\ UNCHANGED flags
     ELSE /\ flags' = {"s", "h"}
          /\ mpc' = "subscribe"
          /\ UNCHANGED <<service_keys, cur_labels, services, file, consumed, discovers, writes>>
  /\ UNCHANGED <<db, clientVars, histVars, subscribed, pending>>
  /\ MonHist(~ok)

\* monitor_registry: pubsub.psubscribe("__keyspace@0__:prometheus_sd*")?
\* Every key of the registry matches the pattern.
MonSubscribe(ok) ==
  /\ mpc = "subscribe"
  /\ IF ~ok THEN MonFail /\ UNCHANGED subscribed
     ELSE /\ subscribed' = TRUE
          /\ mpc' = "wait"
          /\ UNCHANGED <<service_keys, cur_labels, services, file, consumed, discovers, writes>>
  /\ UNCHANGED <<db, clientVars, histVars, flags, pending>>
  /\ MonHist(~ok)

\* Mutant: one wake-up takes every message that is waiting.
MonGetMessage_Coalesce(ok) ==
  /\ mpc = "wait"
  /\ IF ~ok THEN MonFail /\ UNCHANGED pending
     ELSE /\ pending > 0
          /\ pending' = 0
          /\ consumed' = consumed + pending
          /\ mpc' = "keys"
          /\ UNCHANGED <<service_keys, cur_labels, services, file, discovers, writes>>
  /\ UNCHANGED <<db, clientVars, histVars, flags, subscribed>>
  /\ MonHist(~ok)

\* monitor_registry: pubsub.get_message()? blocks until a message is there.
MonGetMessage(ok) ==
  /\ mpc = "wait"
  /\ IF ~ok THEN MonFail /\ UNCHANGED pending
     ELSE /\ pending > 0
          /\ pending' = pending - 1
          /\ consumed' = consumed + 1
          /\ mpc' = "keys"
          /\ UNCHANGED <<service_keys, cur_labels, services, file, discovers, writes>>
  /\ UNCHANGED <<db, clientVars, histVars, flags, subscribed>>
  /\ MonHist(~ok)

(***************************************************************************)
(* try_redis_connect.  Time is counted in ticks of 250 ms.                 *)
(***************************************************************************)
\* Duration::from_secs(max_timeout_sec) in ticks.
TicksPerSec == 4
\* with_initial_interval(500 ms) and with_max_interval(15 min) in ticks.
InitialInterval == 2
MaxInterval == 3600

\* with_multiplier(1.5): the interval after this one, capped.
IncrementCurrentInterval(cur) ==
  IF (cur * 3) \div 2 > MaxInterval THEN MaxInterval ELSE (cur * 3) \div 2

\* The waits next_backoff can draw around the current interval (the
\* builder's randomization factor is left at 0.5).
RandomizedIntervals(cur) == (cur - cur \div 2)..(cur + cur \div 2)

Subcommands == {"register", "unregister", "discover"}
\* What one attempt comes to: no connection, an error for PING, a reply
\* that is not PONG, or PONG.
Outcomes == {"connect", "ping", "reply", "pong"}

\* try_redis_connect is entered.
Connecting(sub, max_timeout_sec) ==
  [ pc |-> "attempt", subcommand |-> sub,
    max_elapsed_time |-> max_timeout_sec * TicksPerSec,
    elapsed_time |-> 0, current_interval |-> InitialInterval, attempts |-> 0,
    last |-> "none", res |-> "none" ]

\* try_redis_connect has returned a connection.
Established ==
  [ pc |-> "connected", subcommand |-> "any", max_elapsed_time |-> 0,
    elapsed_time |-> 0, current_interval |-> InitialInterval, attempts |-> 1,
    last |-> "pong", res |-> "Ok" ]

\* Mutant: any reply to PING counts as a live connection.
ConnAttempt_AnyReply(outcome, d) ==
  LET good == outcome \in {"pong", "reply"} IN
  /\ conn.pc = "attempt"
  /\ conn' = [conn EXCEPT !.attempts = @ + 1,
                          !.elapsed_time = @ + d,
                          !.last = outcome,
                          !.pc = IF good THEN "connected" ELSE "backoff",
                          !.res = IF good THEN "Ok" ELSE @]
  /\ mpc' = IF good /\ conn.subcommand = "discover" THEN "keys" ELSE mpc
  /\ pc' = [pc EXCEPT ![1] =
               IF good /\ conn.subcommand # "discover" THEN "idle" ELSE @]
  /\ UNCHANGED <<db, call, pipe, nops, histVars, redisVars, traceVars>>
  /\ UNCHANGED <<service_keys, cur_labels, services, file, consumed, discovers, writes>>

\* One run of the operation retried: get_connection_with_timeout, then
\* PING.  With PONG try_redis_connect returns the connection and run_app
\* goes on to its subcommand; every failure is a transient error.
ConnAttempt(outcome, d) ==
  LET good == outcome = "pong" IN
  /\ conn.pc = "attempt"
  /\ conn' = [conn EXCEPT !.attempts = @ + 1,
                          !.elapsed_time = @ + d,
                          !.last = outcome,
                          !.pc = IF good THEN "connected" ELSE "backoff",
                          !.res = IF good THEN "Ok" ELSE @]
  /\ mpc' = IF good /\ conn.subcommand = "discover" THEN "keys" ELSE mpc
  /\ pc' = [pc EXCEPT ![1] =
               IF good /\ conn.subcommand # "discover" THEN "idle" ELSE @]
  /\ UNCHANGED <<db, call, pipe, nops, histVars, redisVars, traceVars>>
  /\ UNCHANGED <<service_keys, cur_labels, services, file, consumed, discovers, writes>>

\* next_backoff gives a wait: the horizon is not passed, and the wait drawn
\* ends within it.
NextBackoff(c, interval) ==
  /\ ~(c.elapsed_time > c.max_elapsed_time)
  /\ c.elapsed_time + interval <= c.max_elapsed_time

\* retry_notify after a transient error: sleep for the wait drawn and try
\* again, or return the error when next_backoff gives none; run_app
\* returns that error and main exits with status 1.
ConnBackoff(interval) ==
  /\ conn.pc = "backoff"
  /\ interval \in RandomizedIntervals(conn.current_interval)
  /\ conn' = IF NextBackoff(conn, interval)
             THEN [conn EXCEPT !.pc = "attempt",
                               !.elapsed_time = @ + interval,
                               !.current_interval = IncrementCurrentInterval(@)]
             ELSE [conn EXCEPT !.pc = "failed", !.res = conn.last]
  /\ UNCHANGED <<db, clientVars, histVars, redisVars, monVars, traceVars>>

\* An empty Redis, no client process running, the discover process started.
Start0 ==
  /\ db = EmptyDb
  /\ pc = [c \in Clients |-> "idle"]
  /\ call = [c \in Clients |-> NoCall]
  /\ pipe = [c \in Clients |-> <<>>]
  /\ nops = 0
  /\ last = [call |-> NoCall, result |-> "none"]
  /\ repeat = FALSE
  /\ scen = 0
  /\ flags = {}
  /\ subscribed = FALSE
  /\ pending = 0
  /\ mpc = "keys"
  /\ service_keys = <<>>
  /\ cur_labels = EmptyHash
  /\ services = <<>>
  /\ file = NoFile
  /\ consumed = 0
  /\ discovers = 0
  /\ writes = 0
  /\ err = "none"
  /\ lastgood = NoFile
  /\ seen = {EmptyDb}
  /\ conn = Established

Init == Start0 /\ recording = FALSE /\ tracing = FALSE
\* The same, with the history of the calls kept.
HistInit == Start0 /\ recording = TRUE /\ tracing = FALSE
\* The same, with the history of the discover process kept.
TraceInit == Start0 /\ recording = FALSE /\ tracing = TRUE

\* No other client process is inside a call.
Alone(c) == \A o \in Clients \ {c} : pc[o] = "idle"

\* Calls executed one at a time.
SeqNext ==
  \E c \in {1} :
    \/ \E inst \in Instances, ok \in BOOLEAN : Alone(c) /\ Register(c, inst, ok)
    \/ \E k \in Keys, h \in HostArgs, ok \in BOOLEAN :
         Alone(c) /\ UnregisterCheck(c, k, h, ok)
    \/ \E ok \in BOOLEAN, t \in AllTargets : Alone(c) /\ UnregisterRead(c, ok, t)
    \/ \E ok \in BOOLEAN : Alone(c) /\ UnregisterCommit(c, ok)
SeqSpec == HistInit /\ [][SeqNext]_vars

\* Inputs of the clients in the specifications with concurrency.
ConcInstances ==
  { MakeInstance(k, None, <<>>, h, p, m) :
      k \in Keys, h \in Hosts, p \in Ports, m \in Paths }
ConcHostArgs == { None, Some(<<"h", "1">>) }

\* Client processes running at once, their backend steps interleaved.
ConcNext ==
  \E c \in Clients :
    \/ \E inst \in ConcInstances, ok \in BOOLEAN : Register(c, inst, ok)
    \/ \E k \in Keys, h \in ConcHostArgs, ok \in BOOLEAN : UnregisterCheck(c, k, h, ok)
    \/ \E ok \in BOOLEAN, t \in AllTargets : UnregisterRead(c, ok, t)
    \/ \E ok \in BOOLEAN : UnregisterCommit(c, ok)
ConcSpec == HistInit /\ [][ConcNext]_vars

\* The steps of the discover process; ok says whether the step succeeds.
MonNext(ok) ==
  \/ \E order \in Orders(db.svc) : MonReadKeys(ok, order)
  \/ MonReadLabels(ok)
  \/ MonReadTargets(ok)
  \/ MonCreate(ok)
  \/ MonWrite(ok)
  \/ MonConnect(ok)
  \/ MonConfig(ok)
  \/ MonSubscribe(ok)
  \/ MonGetMessage(ok)

\* The discover process and a client process beside it.
Next ==
  \/ \E c \in {1} :
       \/ \E inst \in ConcInstances, ok \in BOOLEAN : Register(c, inst, ok)
       \/ \E k \in Keys, h \in ConcHostArgs, ok \in BOOLEAN : UnregisterCheck(c, k, h, ok)
       \/ \E ok \in BOOLEAN, t \in AllTargets : UnregisterRead(c, ok, t)
       \/ \E ok \in BOOLEAN : UnregisterCommit(c, ok)
  \/ \E ok \in BOOLEAN : MonNext(ok)
Spec == Init /\ [][Next]_vars

\* The discover process with no backend or file error, scheduled fairly,
\* and a client process beside it.
LiveInstances ==
  { MakeInstance(k, None, <<>>, <<"h", "1">>, p, m) :
      k \in Keys, p \in Ports, m \in Paths }
LiveNext ==
  \/ \E c \in {1} :
       \/ \E inst \in LiveInstances : Register(c, inst, TRUE)
       \/ \E k \in Keys : UnregisterCheck(c, k, None, TRUE)
       \/ \E t \in AllTargets : UnregisterRead(c, TRUE, t)
       \/ UnregisterCommit(c, TRUE)
  \/ MonNext(TRUE)
LiveSpec == Init /\ [][LiveNext]_vars /\ WF_vars(MonNext(TRUE))

\* The discover process with backend and file errors, its history kept, and
\* a client process beside it.
CycleNext ==
  \/ \E c \in {1} :
       \/ \E inst \in LiveInstances : Register(c, inst, TRUE)
       \/ \E k \in Keys : UnregisterCheck(c, k, None, TRUE)
       \/ \E t \in AllTargets : UnregisterRead(c, TRUE, t)
       \/ UnregisterCommit(c, TRUE)
  \/ \E ok \in BOOLEAN : MonNext(ok)
CycleSpec == TraceInit /\ [][CycleNext]_vars

\* The registries a process can find when it starts: empty, or one service
\* registered.
ConnDbs ==
  {EmptyDb} \cup {ApplyPipe(EmptyDb, RegisterPipe(inst), {}).db : inst \in ConcInstances}

\* One process is started: it connects, then runs its subcommand.
ConnInit ==
  /\ \E sub \in Subcommands, t \in 0..MaxTimeoutSec :
       /\ conn = Connecting(sub, t)
       /\ mpc = IF sub = "discover" THEN "start" ELSE "none"
       /\ pc = [c \in Clients |-> IF c = 1 /\ sub # "discover" THEN "start" ELSE "idle"]
  /\ db \in ConnDbs
  /\ seen = {db}
  /\ call = [c \in Clients |-> NoCall]
  /\ pipe = [c \in Clients |-> <<>>]
  /\ nops = 0
  /\ last = [call |-> NoCall, result |-> "none"]
  /\ repeat = FALSE
  /\ scen = 0
  /\ recording = FALSE
  /\ tracing = FALSE
  /\ flags = {}
  /\ subscribed = FALSE
  /\ pending = 0
  /\ service_keys = <<>>
  /\ cur_labels = EmptyHash
  /\ services = <<>>
  /\ file = NoFile
  /\ consumed = 0
  /\ discovers = 0
  /\ writes = 0
  /\ err = "none"
  /\ lastgood = NoFile

\* The steps of try_redis_connect.
ConnStep ==
  \/ \E outcome \in Outcomes, d \in 0..MaxAttemptTicks : ConnAttempt(outcome, d)
  \/ \E interval \in RandomizedIntervals(conn.current_interval) : ConnBackoff(interval)

ConnNext ==
  \/ ConnStep
  \/ \E inst \in ConcInstances, ok \in BOOLEAN :
       conn.subcommand = "register" /\ nops = 0 /\ Register(1, inst, ok)
  \/ \E k \in Keys, h \in ConcHostArgs, ok \in BOOLEAN :
       conn.subcommand = "unregister" /\ nops = 0 /\ UnregisterCheck(1, k, h, ok)
  \/ \E ok \in BOOLEAN, t \in AllTargets : UnregisterRead(1, ok, t)
  \/ \E ok \in BOOLEAN : UnregisterCommit(1, ok)
  \/ \E ok \in BOOLEAN : MonNext(ok)
ConnSpec == ConnInit /\ [][ConnNext]_vars /\ WF_vars(ConnStep)

(***************************************************************************)
(* Properties.                                                             *)
(***************************************************************************)
LabelsExist(d, k) == DOMAIN d.lab[k] # {}
Has(h, f, v) == f \in DOMAIN h /\ h[f] = v

\* The service is gone from the registry and from what discover returns.
Gone(d, k) ==
  /\ k \notin d.svc
  /\ ~LabelsExist(d, k)
  /\ d.tgt[k] = {}
  /\ \A order \in Orders(d.svc) :
       /\ Len(DiscoverRun(d, order)) = Cardinality(d.svc)
       /\ \A i \in 1..Len(order) : SortKeys(order)[i] # k

\* The step completes a register call successfully.
RegisterOk == /\ last'.result = "Ok"
              /\ last'.call.op = "register"
              /\ nops' = nops + 1

\* The step commits the pipeline of client c's unregister call successfully.
UnregisterOk(c) == /\ pc[c] = "commit"
                   /\ pc'[c] = "idle"
                   /\ last'.result = "Ok"

\* C1: with calls executed one at a time from an empty registry, a service
\* key is in the Service Set iff its Labels Map exists and its Targets Set
\* exists and is non-empty.
C1_MembershipIff ==
  \A k \in Keys : k \in db.svc <=> (LabelsExist(db, k) /\ db.tgt[k] # {})

C1_Witness ==
  /\ last.result = "Ok"
  /\ last.call.op = "unregister"
  /\ last.call.host # None
  /\ last.call.service_name \notin db.svc
  /\ db.svc # {}

\* The entries discover returns for service k: one per position of k among
\* the sorted keys.
EntriesOf(d, order, k) ==
  {i \in 1..Len(order) : SortKeys(order)[i] = k}

\* C6 as stated: after a successful register, discover returns exactly one
\* entry for the service, with the target string among its targets, job
\* mapped to the given job name and every given extra label in its labels.
C6_RegisterThenDiscover_Stated ==
  (last.result = "Ok" /\ last.call.op = "register") =>
    LET inst == last.call.inst IN
    \A order \in Orders(db.svc) :
      /\ Len(DiscoverRun(db, order)) = Cardinality(db.svc)
      /\ Cardinality(EntriesOf(db, order, inst.service_name)) = 1
      /\ \A i \in EntriesOf(db, order, inst.service_name) :
           LET e == DiscoverRun(db, order)[i] IN
           /\ TargetString(inst.host, inst.port, inst.metrics_path) \in e.targets
           /\ Has(e.labels, JOB, inst.job_name)
           /\ \A n \in 1..Len(inst.labels) :
                Has(e.labels, inst.labels[n][1], inst.labels[n][2])

\* C6 amended: after a successful register, discover returns exactly one
\* entry for the service, with the target string among its targets; its
\* labels hold, for each extra label name, the value given last for it, and
\* job mapped to the given job name unless an extra label is named job.
C6_RegisterThenDiscover ==
  (last.result = "Ok" /\ last.call.op = "register") =>
    LET inst == last.call.inst IN
    \A order \in Orders(db.svc) :
      /\ Len(DiscoverRun(db, order)) = Cardinality(db.svc)
      /\ Cardinality(EntriesOf(db, order, inst.service_name)) = 1
      /\ \A i \in EntriesOf(db, order, inst.service_name) :
           LET e == DiscoverRun(db, order)[i] IN
           /\ TargetString(inst.host, inst.port, inst.metrics_path) \in e.targets
           /\ JOB \in DOMAIN e.labels
           /\ (\A n \in 1..Len(inst.labels) : inst.labels[n][1] # JOB)
                => Has(e.labels, JOB, inst.job_name)
           /\ \A n \in 1..Len(inst.labels) :
                (\A m \in (n + 1)..Len(inst.labels) :
                    inst.labels[m][1] # inst.labels[n][1])
                => Has(e.labels, inst.labels[n][1], inst.labels[n][2])

C6_Witness ==
  /\ last.result = "Ok"
  /\ last.call.op = "register"
  /\ Len(last.call.inst.labels) = 2
  /\ Cardinality(db.svc) = 2

\* C7: a successful register adds its target to the targets the service
\* had and its key to the Service Set, discover has one entry per key, and
\* a register that repeats the successful call before it changes nothing.
C7_RegisterIdempotent ==
  [][ RegisterOk =>
        LET inst == last'.call.inst
            k == inst.service_name
            t == TargetString(inst.host, inst.port, inst.metrics_path)
        IN /\ db'.svc = db.svc \cup {k}
           /\ db'.tgt = [db.tgt EXCEPT ![k] = @ \cup {t}]
           /\ \A order \in Orders(db'.svc) :
                Cardinality(EntriesOf(db', order, k)) = 1
           /\ repeat' => db' = db ]_vars

C7_Witness ==
  /\ repeat
  /\ last.result = "Ok"
  /\ last.call.op = "register"
  /\ Cardinality(db.tgt[last.call.inst.service_name]) = 2

\* C8: with no concurrent client, a successful unregister by host of a
\* service with exactly one target removes the target, the Labels Map and
\* the Service Set membership; discover has no entry for the service.
C8_UnregisterSoleTarget ==
  [][ \A c \in Clients :
        (UnregisterOk(c) /\ call[c].host # None
           /\ Cardinality(db.tgt[call[c].service_name]) = 1)
        => Gone(db', call[c].service_name) ]_vars

C8_Witness ==
  /\ last.result = "Ok"
  /\ last.call.op = "unregister"
  /\ last.call.host # None
  /\ Gone(db, last.call.service_name)
  /\ db.svc # {}

\* C9: with no concurrent client, a successful unregister by host of a
\* service with two or more targets removes exactly one target, one the
\* prefix matches, and leaves the Service Set, every Labels Map and every
\* other Targets Set as they were.
C9_UnregisterOneOfSeveral ==
  [][ \A c \in Clients :
        (UnregisterOk(c) /\ call[c].host # None
           /\ Cardinality(db.tgt[call[c].service_name]) >= 2)
        => LET k == call[c].service_name IN
           /\ \E t \in Matching(db.tgt[k], call[c].host[1]) :
                db'.tgt = [db.tgt EXCEPT ![k] = @ \ {t}]
           /\ Cardinality(db'.tgt[k]) = Cardinality(db.tgt[k]) - 1
           /\ db'.svc = db.svc
           /\ db'.lab = db.lab ]_vars

C9_Witness ==
  /\ last.result = "Ok"
  /\ last.call.op = "unregister"
  /\ last.call.host # None
  /\ Cardinality(db.tgt[last.call.service_name]) = 1
  /\ last.call.service_name \in db.svc
  /\ Cardinality(db.svc) = 2

\* C10: a successful unregister without host removes the Targets Set, the
\* Labels Map and the Service Set membership whatever the number of targets,
\* so discover has no entry for the service; after the scenario (two hosts
\* registered, one unregistered by host, then the service unregistered
\* without host) discover returns the empty sequence.
C10_UnregisterWholesale ==
  [][ /\ \A c \in Clients :
           (UnregisterOk(c) /\ call[c].host = None)
           => Gone(db', call[c].service_name)
      /\ scen' = Len(Scenario)
           => \A order \in Orders(db'.svc) : DiscoverRun(db', order) = <<>> ]_vars

C10_Witness ==
  /\ scen = Len(Scenario)
  /\ last.result = "Ok"
  /\ last.call.op = "unregister"
  /\ last.call.host = None

\* C2: whatever the interleaving of concurrent clients, every service key
\* in the Service Set has a non-empty Targets Set and an existing Labels Map.
C2_MembersHaveTargets ==
  \A k \in db.svc : db.tgt[k] # {} /\ LabelsExist(db, k)

\* C3: with no error and a fairly scheduled discover process, once the
\* mutations have stopped the output file eventually holds the snapshot of
\* the final registry state, and keeps holding it.
C3_FileEventuallyCurrent ==
  <>[](/\ file.state = "written"
       /\ \A order \in Orders(db.svc) : file.content = DiscoverRun(db, order))

\* C4: every Registered Service discover collects, and every one written to
\* the file, has a job label and at least one target.
C4_DiscoveredServicesValid ==
  /\ \A i \in 1..Len(services) :
       JOB \in DOMAIN services[i].labels /\ services[i].targets # {}
  /\ \A i \in 1..Len(file.content) :
       JOB \in DOMAIN file.content[i].labels /\ file.content[i].targets # {}

C11_FailuresLeaveRegistry ==
  [][ /\ \A c \in Clients :
           (pc[c] = "idle" /\ pc'[c] = "read" /\ nops' = nops + 1)
           => call'[c].service_name \in db.svc
      /\ (nops' = nops + 1 /\ pc' = pc /\ last'.call.op = "unregister")
           => (last'.result = "NoSuchService" /\ db' = db)
      /\ \A c \in Clients :
           LET k == call[c].service_name
               nomatch == \A t \in db.tgt[k] : ~StartsWith(t, call[c].host[1])
           IN /\ (pc[c] = "read" /\ call[c].host # None /\ nomatch)
                   => /\ pc'[c] = "idle"
                      /\ last'.result \in {"NoSuchHost", "RedisError"}
                      /\ db' = db
              /\ (pc[c] = "read" /\ pc'[c] = "idle" /\ last'.result = "NoSuchHost")
                   => (call[c].host # None /\ nomatch /\ k \in db.svc /\ db' = db) ]_vars

C11_Witness ==
  /\ last.result = "NoSuchHost"
  /\ last.call.service_name \in db.svc
  /\ Cardinality(db.tgt[last.call.service_name]) = 2

\* C12: a step of the discover process that fails (waiting for the message,
\* a read of discover_services, creating or writing the file) ends the
\* process: after a failed step no further step of the process is taken.
C12_CycleFailureIsFatal ==
  err # "none" => mpc = "failed"

\* C13: with a finite --max-timeout try_redis_connect comes to an end; it
\* returns a connection only when the attempt just made got PONG; after a
\* failed attempt it tries again whenever the largest wait next_backoff can
\* draw still ends within the horizon, and gives up when not even the
\* smallest does; it then returns the error of the last attempt, and the
\* process takes no step of register, unregister or discover.
C13_ConnectTerminates ==
  /\ <>(conn.pc \in {"connected", "failed"})
  /\ [](conn.pc = "connected" => (conn.last = "pong" /\ conn.res = "Ok"))
  /\ [](conn.pc = "failed" => (conn.last # "pong" /\ conn.res = conn.last))
  /\ [][ /\ conn.pc = "backoff" =>
             LET cur == conn.current_interval
                 left == conn.max_elapsed_time - conn.elapsed_time
             IN /\ conn'.pc \in {"attempt", "failed"}
                /\ cur + cur \div 2 <= left => conn'.pc = "attempt"
                /\ cur - cur \div 2 > left => conn'.pc = "failed"
          /\ conn'.pc # "connected" => UNCHANGED <<db, nops, pc, mpc, file>> ]_vars

C13_Witness ==
  /\ conn.pc = "failed"
  /\ conn.attempts >= 3
  /\ conn.max_elapsed_time > 0

\* The place of key k among the keys of S in ascending order.
Rank(S, k) == 1 + Cardinality({j \in S : StrLess(j, k)})

\* C14: for every registry state reached and every order in which the
\* backend can reply the Service Set, discover returns as many entries as
\* the Service Set has members, and the entry at the place a key has in
\* ascending lexicographic order holds that key's labels and targets.
C14_DiscoverSorted ==
  \A order \in Orders(db.svc) :
    LET out == DiscoverRun(db, order) IN
    /\ Len(out) = Cardinality(db.svc)
    /\ \A k \in db.svc :
         /\ out[Rank(db.svc, k)].labels = db.lab[k]
         /\ out[Rank(db.svc, k)].targets = db.tgt[k]

C14_Witness ==
  /\ db.svc = Keys
  /\ last.result = "Ok"
  /\ last.call.op = "register"
  /\ last.call.inst.service_name = <<"d", "b">>
  /\ ~repeat
  /\ db.lab[<<"w">>] # db.lab[<<"d", "b">>]

\* C15: whatever the interleaving with other clients, the commit of a
\* successful unregister by host removes at most one target of the service,
\* and when the service has other targets at that moment it stays in the
\* Service Set with its Labels Map.
C15_UnregisterKeepsOthers ==
  [][ \A c \in Clients :
        (UnregisterOk(c) /\ call[c].host # None)
        => LET k == call[c].service_name
               removed == db.tgt[k] \ db'.tgt[k]
           IN /\ Cardinality(removed) <= 1
              /\ Cardinality(db.tgt[k]) >= 2
                   => (k \in db'.svc /\ LabelsExist(db', k)) ]_vars

\* The host component of a target string: the host it was formatted from.
HostsOf(t) ==
  {h \in Hosts : \E p \in Ports, m \in Paths : t = TargetString(h, p, m)}

\* The targets whose host component starts with the prefix.
HostMatching(service_targets, prefix) ==
  {t \in service_targets : \E h \in HostsOf(t) : StartsWith(h, prefix)}

\* C16: unregister by host removes only targets whose host component
\* starts with the host given, and when no target of the service has such a
\* host component the call ends without a pipeline, with NoSuchHost (or
\* the backend's error for the read), and the registry as it was.
C16_HostComponentPrefix ==
  [][ \A c \in Clients :
        /\ (pc[c] = "read" /\ call[c].host # None
               /\ HostMatching(db.tgt[call[c].service_name], call[c].host[1]) = {})
             => /\ pc'[c] = "idle"
                /\ last'.result \in {"NoSuchHost", "RedisError"}
                /\ db' = db
        /\ (UnregisterOk(c) /\ call[c].host # None)
             => LET k == call[c].service_name IN
                (db.tgt[k] \ db'.tgt[k]) \subseteq HostMatching(db.tgt[k], call[c].host[1]) ]_vars

\* What discover returns for the registry states in S, each read at one
\* instant.
Snapshots(S) ==
  UNION {{DiscoverRun(d, order) : order \in Orders(d.svc)} : d \in S}

\* C17: when discover_services returns, what it returns is the snapshot of
\* one of the registry states that existed between its start and its end.
C17_DiscoverIsSnapshot ==
  mpc = "create" => services \in Snapshots(seen)

\* C18: an unregister call ends with NoSuchService only if the service key
\* is not in the Service Set when the membership is asked.
C18_NoSuchServiceOnlyIfAbsent ==
  [][ (nops' = nops + 1 /\ pc' = pc /\ last'.call.op = "unregister"
         /\ last'.result = "NoSuchService")
      => last'.call.service_name \notin db.svc ]_vars

\* C19: a cycle of the loop that fails while waiting for the message or in
\* discover_services leaves the file as the last write that succeeded left
\* it, and the file changes only in the steps after discover_services has
\* returned.
C19_FailedCycleKeepsFile ==
  [][ /\ (subscribed /\ mpc \in {"wait", "keys", "labels", "targets"} /\ mpc' = "failed")
           => (file' = file /\ file' = lastgood)
      /\ file' # file => mpc \in {"create", "write"} ]_vars

\* The registry states an unregister by host can produce from registry d,
\* one for each target its find() can stop at.
UnregisterResults(d, service_name, host) ==
  { ApplyPipe(d, UnregisterPipe(service_name, host, d.tgt[service_name], found), {}).db :
      found \in Matching(d.tgt[service_name], host[1]) }

\* C20: an unregister by host that has read the targets of its service can
\* lead to one registry state only, whatever the number of targets the host
\* given matches.
C20_UnregisterDeterministic ==
  \A c \in Clients :
    (pc[c] = "read" /\ call[c].host # None)
    => Cardinality(UnregisterResults(db, call[c].service_name, call[c].host)) <= 1

=============================================================================
